---------------------------- MODULE Spec2Model ----------------------------
(***************************************************************************)
(* RTSP dashboard (rtsp_gui_dashboard_pro_ar.py): the discovery engine     *)
(* (_smart_probe_single), the batch runner (_probe_ids.run), the result    *)
(* cache and the handlers that create and reset camera rows.               *)
(*                                                                         *)
(* Representation.  A Python str is a sequence of tokens; the separator    *)
(* "/" and the blank " " are tokens of their own, so lstrip("/") and       *)
(* strip() act on them as they do on characters.  None is the token        *)
(* None.  A URL is the token sequence the f-strings of build_urls          *)
(* concatenate.  Elapsed time (latency) is not modelled.                   *)
(***************************************************************************)
EXTENDS Integers, Sequences, FiniteSets, TLC

None == "<None>"
AUTO == <<"__AUTO__">>
SEP  == "/"
BLANK == " "

(* ---------------------------- VENDOR_DB -------------------------------- *)

\* dict insertion order of VENDOR_DB
VendorOrder ==
  << "hikvision", "dahua", "axis", "reolink", "uniview", "amcrest", "foscam",
     "tapo", "hanwha", "bosch", "unifi_protect", "generic" >>

VENDOR_DB ==
  [ hikvision |->
      [ match    |-> <<"hikvision">>,
        paths    |-> << <<"Streaming", SEP, "Channels", SEP, "101">>,
                        <<"Streaming", SEP, "Channels", SEP, "102">>,
                        <<"h264Preview_01_main">>, <<"h264Preview_01_sub">> >>,
        ports    |-> <<554, 10554>>,
        defaults |-> << <<"admin", "12345">>, <<"admin", "admin">>, <<"admin", "">> >> ],
    dahua |->
      [ match    |-> <<"dahua", "general">>,
        paths    |-> << <<"cam", SEP, "realmonitor?channel=1&subtype=0">>,
                        <<"cam", SEP, "realmonitor?channel=1&subtype=1">> >>,
        ports    |-> <<554>>,
        defaults |-> << <<"admin", "admin">>, <<"admin", "">> >> ],
    axis |->
      [ match    |-> <<"axis">>,
        paths    |-> << <<"axis-media", SEP, "media.amp">>,
                        <<"axis-media", SEP, "media.amp?videocodec=h264">> >>,
        ports    |-> <<554>>,
        defaults |-> << <<"root", "pass">>, <<"root", "root">>, <<"root", "">> >> ],
    reolink |->
      [ match    |-> <<"reolink">>,
        paths    |-> << <<"Preview_01_main">>, <<"Preview_01_sub">>,
                        <<"h264Preview_01_main">>, <<"h264Preview_01_sub">> >>,
        ports    |-> <<554>>,
        defaults |-> << <<"admin", "">> >> ],
    uniview |->
      [ match    |-> <<"uniview", "unv", "uv">>,
        paths    |-> << <<"media", SEP, "video1">>, <<"media", SEP, "video2">>,
                        <<"media", SEP, "video3">> >>,
        ports    |-> <<554>>,
        defaults |-> << <<"admin", "123456">>, <<"admin", "">> >> ],
    amcrest |->
      [ match    |-> <<"amcrest">>,
        paths    |-> << <<"cam", SEP, "realmonitor?channel=1&subtype=0">>,
                        <<"cam", SEP, "realmonitor?channel=1&subtype=1">>,
                        <<"h264Preview_01_main">>, <<"h264Preview_01_sub">> >>,
        ports    |-> <<554>>,
        defaults |-> << <<"admin", "admin">>, <<"admin", "">> >> ],
    foscam |->
      [ match    |-> <<"foscam">>,
        paths    |-> << <<"videoMain">>, <<"videoSub">> >>,
        ports    |-> <<88, 554>>,
        defaults |-> << <<"admin", "">>, <<"user", "user">> >> ],
    tapo |->
      [ match    |-> <<"tapo">>,
        paths    |-> << <<"stream1">>, <<"stream2">>, <<"stream6">>, <<"stream7">> >>,
        ports    |-> <<554>>,
        defaults |-> << >> ],
    hanwha |->
      [ match    |-> <<"hanwha", "wisenet", "samsung">>,
        paths    |-> << <<"profile1", SEP, "media.smp">>, <<"profile2", SEP, "media.smp">> >>,
        ports    |-> <<554>>,
        defaults |-> << <<"admin", "111111">>, <<"admin", "4321">>, <<"admin", "">> >> ],
    bosch |->
      [ match    |-> <<"bosch">>,
        paths    |-> << << >>, <<"video?inst=1">>, <<"video?inst=2">>,
                        <<"?inst=1">>, <<"?inst=2">> >>,
        ports    |-> <<554>>,
        defaults |-> << <<"admin", "admin">>, <<"admin", "">> >> ],
    unifi_protect |->
      [ match    |-> <<"unifi", "ubiquiti", "protect">>,
        paths    |-> << << >> >>,
        ports    |-> <<7447>>,
        defaults |-> << >> ],
    generic |->
      [ match    |-> << >>,
        paths    |-> << << >>, <<"live">>, <<"live.sdp">>, <<"h264">>, <<"h265">>,
                        <<"stream">>, <<"stream1">>, <<"stream2">>, <<"0">>, <<"1">>,
                        <<"video">>, <<"video.mp4">>, <<"unicast">> >>,
        ports    |-> <<554, 8554>>,
        defaults |-> << <<"admin", "admin">>, <<"admin", "12345">>, <<"admin", "">>,
                        <<"user", "user">> >> ] ]

(* ------------------------- sequence helpers ---------------------------- *)

Range(s) == { s[i] : i \in DOMAIN s }

\* s[:n]
Take(s, n) == SubSeq(s, 1, IF n < Len(s) THEN n ELSE Len(s))

\* s ++ [x for x in t if x not in s], one element at a time
RECURSIVE AppendNew(_, _)
AppendNew(s, t) ==
  IF t = << >> THEN s
  ELSE AppendNew(IF Head(t) \in Range(s) THEN s ELSE Append(s, Head(t)), Tail(t))


(* ------------------------------ strings -------------------------------- *)

Digit(d) ==
  CASE d = 0 -> "0" [] d = 1 -> "1" [] d = 2 -> "2" [] d = 3 -> "3" [] d = 4 -> "4"
    [] d = 5 -> "5" [] d = 6 -> "6" [] d = 7 -> "7" [] d = 8 -> "8" [] d = 9 -> "9"

\* f"{port}" for a non-negative int: its decimal digits
RECURSIVE Dec(_)
Dec(n) == IF n < 10 THEN <<Digit(n)>> ELSE Append(Dec(n \div 10), Digit(n % 10))

LStrip_One(p) == IF p # << >> /\ Head(p) = SEP THEN Tail(p) ELSE p

DigitVal(t) == CHOOSE d \in 0..9 : Digit(d) = t

\* the int a run of decimal digits denotes
RECURSIVE FromDec(_)
FromDec(ds) == IF ds = << >> THEN 0 ELSE 10 * FromDec(SubSeq(ds, 1, Len(ds) - 1)) + DigitVal(ds[Len(ds)])

\* str.lstrip("/"): every leading separator goes
RECURSIVE LStrip(_)
LStrip(p) == IF p # << >> /\ Head(p) = SEP THEN LStrip(Tail(p)) ELSE p

\* str.strip(): leading and trailing blanks go
RECURSIVE StripBlanks(_)
StripBlanks(p) ==
  IF p = << >> THEN p
  ELSE IF Head(p) = BLANK THEN StripBlanks(Tail(p))
  ELSE IF p[Len(p)] = BLANK THEN StripBlanks(SubSeq(p, 1, Len(p) - 1))
  ELSE p

\* Python truthiness of an Optional[str]
Truthy(x) == x # None /\ x # ""

(* ----------------------------- build_urls ------------------------------ *)

Auth_NonePwd(user, pwd) ==
  IF Truthy(user) THEN <<user, ":", IF pwd = None THEN "None" ELSE pwd, "@">> ELSE << >>

Auth(user, pwd) ==
  IF Truthy(user) THEN <<user, ":", IF pwd = None THEN "" ELSE pwd, "@">> ELSE << >>

BuildUrl(ip, port, user, pwd, path) ==
  LET p == LStrip(path)
  IN  <<"rtsp://">> \o Auth(user, pwd) \o <<ip, ":">> \o Dec(port)
        \o (IF p = << >> THEN << >> ELSE <<SEP>> \o p)

build_urls(ip, port, user, pwd, paths) ==
  [ i \in 1..Len(paths) |-> BuildUrl(ip, port, user, pwd, paths[i]) ]

(* ---------------------------- detect_vendor ---------------------------- *)

\* str.lower() on the tokens that carry upper-case letters in this model
LowerTok(t) ==
  CASE t = "Hikvision" -> "hikvision"
    [] t = "Bosch" -> "bosch"
    [] t = "TAPO" -> "tapo"
    [] t = "Server" -> "server"
    [] t = "WWW-Authenticate" -> "www-authenticate"
    [] OTHER -> t

Lower(s) == [ i \in 1..Len(s) |-> LowerTok(s[i]) ]

\* dict.get(k, "")
HeaderGet(headers, k) == IF k \in DOMAIN headers THEN headers[k] ELSE << >>

HeaderText(headers) ==
  Lower(HeaderGet(headers, "server") \o <<BLANK>>
        \o HeaderGet(headers, "www-authenticate") \o <<BLANK>>
        \o HeaderGet(headers, "proxy-authenticate"))

Matches(vendor, text) == \E token \in Range(VENDOR_DB[vendor].match) : token \in Range(text)

RECURSIVE FirstMatch_Last(_, _)
FirstMatch_Last(order, text) ==
  IF order = << >> THEN "generic"
  ELSE IF FirstMatch_Last(Tail(order), text) # "generic" THEN FirstMatch_Last(Tail(order), text)
  ELSE IF Matches(Head(order), text) THEN Head(order)
  ELSE "generic"

RECURSIVE FirstMatch(_, _)
FirstMatch(order, text) ==
  IF order = << >> THEN "generic"
  ELSE IF Matches(Head(order), text) THEN Head(order)
  ELSE FirstMatch(Tail(order), text)

detect_vendor(headers) == FirstMatch(VendorOrder, HeaderText(headers))

(* ------------------- _smart_probe_single: candidates ------------------- *)

DefaultPort == 554
MaxDefaults == 3

\* an Optional[int] that is None
NoPort == 0 - 1

BasePort_Ignored(port) == DefaultPort

\* int(r.get("port") or 554)
BasePort(port) == IF port = NoPort \/ port = 0 THEN DefaultPort ELSE port

CandidatePorts_NoDedup(base, vendor) ==
  <<base>> \o VENDOR_DB[vendor].ports \o VENDOR_DB["generic"].ports

CandidatePorts(base, vendor) ==
  AppendNew(AppendNew(<<base>>, VENDOR_DB[vendor].ports), VENDOR_DB["generic"].ports)

CandidatePaths_ExplicitFirst(path_setting, vendor) ==
  (IF path_setting # AUTO THEN <<path_setting>> ELSE << >>)
    \o (IF VENDOR_DB[vendor].paths # << >> THEN VENDOR_DB[vendor].paths
        ELSE VENDOR_DB["generic"].paths)

CandidatePaths(path_setting, vendor) ==
  IF path_setting # AUTO THEN <<path_setting>>
  ELSE IF VENDOR_DB[vendor].paths # << >> THEN VENDOR_DB[vendor].paths
  ELSE VENDOR_DB["generic"].paths

\* the validator calls one credential pair gives on one port, in zip order
CredCalls(ip, port, u, pw, paths, kind, di) ==
  [ i \in 1..Len(paths) |->
      [ port |-> port, path |-> paths[i], user |-> u, pwd |-> pw,
        url |-> build_urls(ip, port, u, pw, paths)[i], kind |-> kind, di |-> di ] ]

RECURSIVE DefaultCalls(_, _, _, _, _)
DefaultCalls(ip, port, defaults, paths, di) ==
  IF defaults = << >> THEN << >>
  ELSE CredCalls(ip, port, Head(defaults)[1], Head(defaults)[2], paths, "default", di)
         \o DefaultCalls(ip, port, Tail(defaults), paths, di + 1)

PortCandidates_DefaultsFirst(ip, port, user, pwd, paths, vendor, try_defaults) ==
  (IF try_defaults
   THEN DefaultCalls(ip, port, Take(VENDOR_DB[vendor].defaults, MaxDefaults), paths, 1)
   ELSE << >>)
    \o CredCalls(ip, port, user, pwd, paths, "hint", 0)

PortCandidates_NoCap(ip, port, user, pwd, paths, vendor, try_defaults) ==
  CredCalls(ip, port, user, pwd, paths, "hint", 0)
    \o (IF try_defaults
        THEN DefaultCalls(ip, port, VENDOR_DB[vendor].defaults, paths, 1)
        ELSE << >>)

\* the URLs one reachable port offers to quick_open, in the order the loops visit them
PortCandidates(ip, port, user, pwd, paths, vendor, try_defaults) ==
  CredCalls(ip, port, user, pwd, paths, "hint", 0)
    \o (IF try_defaults
        THEN DefaultCalls(ip, port, Take(VENDOR_DB[vendor].defaults, MaxDefaults), paths, 1)
        ELSE << >>)

\* index of the first candidate quick_open accepts, 0 if none
FirstOk(cands, playable) ==
  IF \E i \in 1..Len(cands) : cands[i].url \in playable
  THEN CHOOSE i \in 1..Len(cands) :
         /\ cands[i].url \in playable
         /\ \A j \in 1..(i - 1) : cands[j].url \notin playable
  ELSE 0

Validated_NoExit(cands, playable) == cands

\* the candidates quick_open is actually called on: the loops return at the first success
Validated(cands, playable) ==
  IF FirstOk(cands, playable) = 0 THEN cands ELSE SubSeq(cands, 1, FirstOk(cands, playable))


(* ------------------------------- state --------------------------------- *)

VARIABLES
  rows,          \* self.rows: camera id (1..Len) -> row dict
  cache,         \* self.cache: ip -> entry
  disk,          \* content of CACHE_FILE: the JSON text, and whether it is complete
  try_defaults,  \* self.try_defaults_var
  max_workers,   \* self.max_workers
  batches,       \* one record per _probe_ids call: its run() thread and its pool
  ui,            \* the Tk thread: idle, or inside on_set_path_selected
  edits,         \* how many times the user has set a path or ticked the checkbox
  reach,         \* network: the (ip, port) pairs that accept a TCP connection
  play,          \* network: the URLs cv2 opens and reads a frame from
  response,      \* network: ip -> header lines of its answer to DESCRIBE
  pure           \* a module-level function called on its own: name, arguments, result

env  == <<edits, reach, play, response, pure>>
vars == <<rows, cache, disk, try_defaults, max_workers, batches, ui, edits, reach, play,
          response, pure>>

EmptyMap == [ x \in {} |-> x ]

\* no module-level function has been called on its own
NoCall == [ fn |-> "none", args |-> << >>, ret |-> << >> ]

\* d[k] = v on a dict
Upsert(d, k, v) == [ x \in DOMAIN d \cup {k} |-> IF x = k THEN v ELSE d[x] ]

(* ------------------------------ CACHE_FILE ------------------------------ *)

\* json text of a str
JsonStr(s) == <<"\"">> \o s \o <<"\"">>

JsonOpt_Str(x) == JsonStr(<<IF x = None THEN "None" ELSE x>>)

\* json text of an Optional[str]: None is written null
JsonOpt(x) == IF x = None THEN <<"null">> ELSE JsonStr(<<x>>)

ParseStr(t) == SubSeq(t, 2, Len(t) - 1)

ParseOpt(t) == IF t = <<"null">> THEN None ELSE ParseStr(t)[1]

\* the member texts of one cache entry
EncodeEntry(e) ==
  [ vendor |-> JsonStr(<<e.vendor>>), path |-> JsonStr(e.path), user |-> JsonOpt(e.user),
    pwd |-> JsonOpt(e.pwd), port |-> Dec(e.port) ]

DecodeEntry(j) ==
  [ vendor |-> ParseStr(j.vendor)[1], path |-> ParseStr(j.path), user |-> ParseOpt(j.user),
    pwd |-> ParseOpt(j.pwd), port |-> FromDec(j.port) ]

\* json.dump(self.cache, f): the object's members, and its closing brace written
JsonDump(d) == [ closed |-> TRUE, members |-> [ ip \in DOMAIN d |-> EncodeEntry(d[ip]) ] ]

\* the file right after open(CACHE_FILE, "w")
Truncated == [ closed |-> FALSE, members |-> EmptyMap ]

\* _load_cache: json.load of the file; a text that does not parse gives {}
JsonLoad(file) ==
  IF file.closed THEN [ ip \in DOMAIN file.members |-> DecodeEntry(file.members[ip]) ]
  ELSE EmptyMap

(* ------------------------------ network -------------------------------- *)

GoodIPs == {"10.0.0.5", "10.0.0.9"}
\* a pasted line with an empty label: the socket module's idna encoding of the host
\* fails with UnicodeError, which is a ValueError and not an OSError
BadIP == "10.0.0..7"
IPs == GoodIPs \cup {BadIP}

\* ping_host lets through what is not an OSError (its except clause names OSError only)
PingRaises(ip) == ip = BadIP

ping_host_Ignored(ip, port) == TRUE

ping_host(ip, port) == <<ip, port>> \in reach

quick_open(url) == url \in play

\* header lines -> {name.lower(): value}, a later line replacing an earlier one
ParseHeaders(lines) ==
  [ k \in { LowerTok(lines[i][1]) : i \in DOMAIN lines } |->
      lines[CHOOSE i \in DOMAIN lines :
              /\ LowerTok(lines[i][1]) = k
              /\ \A j \in DOMAIN lines : j > i => LowerTok(lines[j][1]) # k][2] ]

\* rtsp_headers: every failure (connect included) leaves the mapping empty
rtsp_headers(ip, port) ==
  IF ~PingRaises(ip) /\ <<ip, port>> \in reach THEN ParseHeaders(response[ip]) ELSE EmptyMap

(* ------------------------------ futures -------------------------------- *)

NoRes ==
  [ status |-> "NONE", url |-> << >>, vendor |-> "", path |-> << >>,
    user |-> None, pwd |-> None, port |-> NoPort ]

\* a submitted call of _smart_probe_single: its locals, its log and its result
Queued ==
  [ st |-> "queued", user |-> None, pwd |-> None, path_setting |-> << >>, base |-> NoPort,
    vendor |-> "", ports |-> << >>, paths |-> << >>, idx |-> 0,
    fps |-> << >>, pings |-> << >>, calls |-> << >>, reads |-> << >>, res |-> NoRes ]

Fut(b, c) == batches[b].fut[c]

Running_NeverFreed(b) ==
  { c \in DOMAIN batches[b].fut : Fut(b, c).st \in {"started", "running", "done", "raised"} }

\* the calls that occupy a pool thread
Running(b) == { c \in DOMAIN batches[b].fut : Fut(b, c).st \in {"started", "running"} }

Finished(b) == { c \in DOMAIN batches[b].fut : Fut(b, c).st \in {"done", "raised"} }

SetFut(b, c, f) == batches' = [batches EXCEPT ![b].fut[c] = f]


(* ----------------- _smart_probe_single, on a pool thread ---------------- *)

\* the pool runs work items in submission order
FirstQueued(b, c) ==
  \E i \in DOMAIN batches[b].ids :
    /\ batches[b].ids[i] = c
    /\ \A j \in 1..(i - 1) : Fut(b, batches[b].ids[j]).st # "queued"

\* lines 657-659: ip, user, pwd and the path setting are read from the row
WorkerStart(b, c) ==
  /\ batches[b].pc # "start"
  /\ Fut(b, c).st = "queued"
  /\ FirstQueued(b, c)
  /\ Cardinality(Running(b)) < batches[b].workers
  /\ SetFut(b, c, [Fut(b, c) EXCEPT !.st = "started",
                                    !.user = rows[c].user,
                                    !.pwd = rows[c].pwd,
                                    !.path_setting = rows[c].path])
  /\ UNCHANGED <<rows, cache, disk, try_defaults, max_workers, ui, env>>

\* lines 661-672: the port is read, the fingerprint fetched once, the candidates built
WorkerCandidates(b, c) ==
  /\ Fut(b, c).st = "started"
  /\ LET base   == BasePort(rows[c].port)
         vendor == detect_vendor(rtsp_headers(rows[c].ip, base))
     IN  SetFut(b, c, [Fut(b, c) EXCEPT !.st = "running",
                                       !.base = base,
                                       !.vendor = vendor,
                                       \* line 663: the one DESCRIBE request of the run
                                       !.fps = Append(@, base),
                                       !.ports = CandidatePorts(base, vendor),
                                       !.paths = CandidatePaths(Fut(b, c).path_setting, vendor),
                                       !.idx = 1])
  /\ UNCHANGED <<rows, cache, disk, try_defaults, max_workers, ui, env>>

\* line 680 / 688: the tuple returned for the accepted candidate
SuccessOf(f, call) ==
  [ status |-> "SUCCESS", url |-> call.url, vendor |-> f.vendor, path |-> call.path,
    user |-> call.user, pwd |-> call.pwd, port |-> call.port ]

FailedOf_LastTried(f) ==
  [ status |-> "FAILED", url |-> << >>, vendor |-> f.vendor,
    path |-> IF f.paths # << >> THEN f.paths[1] ELSE << >>,
    user |-> IF f.calls # << >> THEN f.calls[Len(f.calls)].user ELSE f.user,
    pwd |-> IF f.calls # << >> THEN f.calls[Len(f.calls)].pwd ELSE f.pwd,
    port |-> f.ports[Len(f.ports)] ]

\* line 690
FailedOf(f) ==
  [ status |-> "FAILED", url |-> << >>, vendor |-> f.vendor,
    path |-> IF f.paths # << >> THEN f.paths[1] ELSE << >>,
    user |-> f.user, pwd |-> f.pwd, port |-> f.base ]

\* after a port without success: the next port, or line 689-690 when none is left
NextPort(f) ==
  IF f.idx < Len(f.ports) THEN [f EXCEPT !.idx = f.idx + 1]
  ELSE [f EXCEPT !.st = "done", !.res = FailedOf(f)]

\* lines 673-688, one iteration of the loop over candidate_ports
PortIteration(f, ip, td) ==
  LET port  == f.ports[f.idx]
      cands == PortCandidates(ip, port, f.user, f.pwd, f.paths, f.vendor, td)
      tried == Validated(cands, play)
      hits  == { i \in DOMAIN tried : quick_open(tried[i].url) }
  IN  IF PingRaises(ip) THEN [f EXCEPT !.st = "raised"]
      ELSE IF ~ping_host(ip, port)
        THEN NextPort([f EXCEPT !.pings = Append(@, <<port, FALSE>>)])
      ELSE LET g == [f EXCEPT !.pings = Append(@, <<port, TRUE>>),
                              !.calls = @ \o tried,
                              \* line 681 is reached when no hinted URL opened
                              !.reads = IF \A i \in 1..Len(f.paths) : ~quick_open(cands[i].url)
                                        THEN Append(@, td) ELSE @]
           IN  IF hits # {}
               THEN [g EXCEPT !.st = "done",
                              !.res = SuccessOf(f, tried[CHOOSE i \in hits : \A j \in hits : i <= j])]
               ELSE NextPort(g)

WorkerPort(b, c) ==
  /\ Fut(b, c).st = "running"
  /\ SetFut(b, c, PortIteration(Fut(b, c), rows[c].ip, try_defaults))
  /\ UNCHANGED <<rows, cache, disk, try_defaults, max_workers, ui, env>>


(* ------------------- _probe_ids.run, the batch thread ------------------- *)

SetBatch(b, r) == batches' = [batches EXCEPT ![b] = r]

SetRow(c, r) == rows' = [rows EXCEPT ![c] = r]

\* line 711-712: the pool is created with self.max_workers and every id is submitted
BatchStart(b) ==
  /\ batches[b].pc = "start"
  /\ SetBatch(b, [batches[b] EXCEPT !.pc = "collect", !.workers = max_workers])
  /\ UNCHANGED <<rows, cache, disk, try_defaults, max_workers, ui, env>>

\* line 713-717: as_completed hands over a finished future; result() re-raises what
\* the call raised, which leaves the loop and, after the pool has drained, the thread;
\* otherwise the tuple is unpacked and r["status"] = status
Collect(b, c) ==
  /\ batches[b].pc = "collect"
  /\ c \in Finished(b) \ batches[b].got
  /\ IF Fut(b, c).st = "raised"
     THEN /\ SetBatch(b, [batches[b] EXCEPT !.pc = "unwind", !.got = @ \cup {c}])
          /\ UNCHANGED rows
     ELSE /\ SetBatch(b, [batches[b] EXCEPT !.pc = "url", !.got = @ \cup {c},
                                            !.cur = c, !.out = Fut(b, c).res,
                                            !.applied[c] = @ + 1,
                                            !.fut[c].pings = << >>, !.fut[c].calls = << >>,
                                            !.fut[c].reads = << >>])
          /\ SetRow(c, [rows[c] EXCEPT !.status = Fut(b, c).res.status])
  /\ UNCHANGED <<cache, disk, try_defaults, max_workers, ui, env>>

\* the with block's exit waits for every submitted call; then the exception ends run()
Unwind(b) ==
  /\ batches[b].pc = "unwind"
  /\ Finished(b) = DOMAIN batches[b].fut
  /\ SetBatch(b, [batches[b] EXCEPT !.pc = "dead"])
  /\ UNCHANGED <<rows, cache, disk, try_defaults, max_workers, ui, env>>

\* line 717: r["url"] = url
ApplyUrl(b) ==
  /\ batches[b].pc = "url"
  /\ SetRow(batches[b].cur, [rows[batches[b].cur] EXCEPT !.url = batches[b].out.url])
  /\ SetBatch(b, [batches[b] EXCEPT !.pc = "vendor"])
  /\ UNCHANGED <<cache, disk, try_defaults, max_workers, ui, env>>

\* line 718: r["vendor"] = vendor
ApplyVendor(b) ==
  /\ batches[b].pc = "vendor"
  /\ SetRow(batches[b].cur, [rows[batches[b].cur] EXCEPT !.vendor = batches[b].out.vendor])
  /\ SetBatch(b, [batches[b] EXCEPT !.pc = "path"])
  /\ UNCHANGED <<cache, disk, try_defaults, max_workers, ui, env>>

\* line 719: if path_used: r["path"] = path_used
PathAfter(r, out) == IF out.path # << >> THEN [r EXCEPT !.path = out.path] ELSE r

ApplyPath(b) ==
  /\ batches[b].pc = "path"
  /\ SetRow(batches[b].cur, PathAfter(rows[batches[b].cur], batches[b].out))
  /\ SetBatch(b, [batches[b] EXCEPT !.pc = "branch"])
  /\ UNCHANGED <<cache, disk, try_defaults, max_workers, ui, env>>

\* line 720-723 and 725-726: the counters, and on SUCCESS r["port"] = port_used
ApplyBranch(b) ==
  /\ batches[b].pc = "branch"
  /\ IF batches[b].out.status = "SUCCESS"
     THEN /\ SetRow(batches[b].cur, [rows[batches[b].cur] EXCEPT !.port = batches[b].out.port])
          /\ SetBatch(b, [batches[b] EXCEPT !.pc = "cache", !.succ = @ + 1])
     ELSE /\ SetBatch(b, [batches[b] EXCEPT !.pc = "cache", !.fail = @ + 1])
          /\ UNCHANGED rows
  /\ UNCHANGED <<cache, disk, try_defaults, max_workers, ui, env>>

\* line 724: the entry written for a SUCCESS; its path is read back from the row
EntryOf(r, out) ==
  [ vendor |-> out.vendor, path |-> r.path, user |-> out.user, pwd |-> out.pwd,
    port |-> out.port ]

CacheAfter_DropOnFailure(c, r, out) ==
  IF out.status = "SUCCESS" THEN Upsert(c, r.ip, EntryOf(r, out))
  ELSE [ x \in DOMAIN c \ {r.ip} |-> c[x] ]

\* line 720-726: what applying an outcome does to self.cache (line 724, on SUCCESS only)
CacheAfter(c, r, out) ==
  IF out.status = "SUCCESS" THEN Upsert(c, r.ip, EntryOf(r, out)) ELSE c

AllCollected_First(b) == batches[b].got # {}

\* line 713: the loop over as_completed(futures) ends when every future has been handed over
AllCollected(b) == batches[b].got = DOMAIN batches[b].fut

ApplyCache(b) ==
  /\ batches[b].pc = "cache"
  /\ cache' = CacheAfter(cache, rows[batches[b].cur], batches[b].out)
  /\ SetBatch(b, [batches[b] EXCEPT
                    !.pc = IF AllCollected(b) THEN "save" ELSE "collect",
                    !.cur = 0, !.out = NoRes])
  /\ UNCHANGED <<rows, disk, try_defaults, max_workers, ui, env>>

\* line 415: open(CACHE_FILE, "w") empties the file; a failure to open it is swallowed
\* and leaves the file as it was.  json.dump then starts to iterate self.cache
SaveOpen(b) ==
  /\ batches[b].pc = "save"
  /\ \E opened \in BOOLEAN :
       IF opened
       THEN /\ disk' = Truncated
            /\ SetBatch(b, [batches[b] EXCEPT !.pc = "dump", !.keys = DOMAIN cache])
       ELSE /\ disk' = disk
            /\ SetBatch(b, [batches[b] EXCEPT !.pc = "report", !.saved = TRUE])
  /\ UNCHANGED <<rows, cache, try_defaults, max_workers, ui, env>>

\* line 416: json.dump writes the text piece by piece while it iterates the dict; a key
\* that another thread inserted meanwhile makes the iteration raise RuntimeError, which
\* line 417 swallows, and the file keeps the pieces written so far
SaveDump(b) ==
  /\ batches[b].pc = "dump"
  /\ IF DOMAIN cache = batches[b].keys
     THEN disk' = JsonDump(cache)
     ELSE \E ks \in SUBSET batches[b].keys :
            disk' = [ closed |-> FALSE, members |-> [ ip \in ks |-> EncodeEntry(cache[ip]) ] ]
  /\ SetBatch(b, [batches[b] EXCEPT !.pc = "report", !.saved = TRUE, !.keys = {}])
  /\ UNCHANGED <<rows, cache, try_defaults, max_workers, ui, env>>

\* line 728, _save_cache
SaveCache(b) == SaveOpen(b) \/ SaveDump(b)

\* line 729: the summary is handed to the Tk thread
Report(b) ==
  /\ batches[b].pc = "report"
  /\ SetBatch(b, [batches[b] EXCEPT !.pc = "end",
                                    !.summary = <<batches[b].succ, batches[b].fail>>])
  /\ UNCHANGED <<rows, cache, disk, try_defaults, max_workers, ui, env>>


(* --------------------------- the Tk thread ------------------------------ *)

MaxCams    == 2
MaxBatches == 2
MaxWorkers == 1
MaxEdits   == 1
MaxProbes  == 3

Idle == [ pc |-> "idle", sel |-> << >>, path |-> << >> ]

\* dict.get(key, default): the default for a missing key only, a stored None is returned
Get(d, key, default) == IF key \in DOMAIN d THEN d[key] ELSE default

RowOf_HintsFirst(cache_hit, ip, port, user, pwd) ==
  [ ip |-> ip,
    port |-> Get(cache_hit, "port", port),
    user |-> IF user # None THEN user ELSE Get(cache_hit, "user", user),
    pwd |-> IF pwd # None THEN pwd ELSE Get(cache_hit, "pwd", pwd),
    vendor |-> Get(cache_hit, "vendor", "unknown"),
    path |-> Get(cache_hit, "path", AUTO),
    status |-> "NEW", url |-> << >> ]

\* line 626-632: the row dict built from the cache hit and the toolbar's values
RowOf(cache_hit, ip, port, user, pwd) ==
  [ ip |-> ip,
    port |-> Get(cache_hit, "port", port),
    user |-> Get(cache_hit, "user", user),
    pwd |-> Get(cache_hit, "pwd", pwd),
    vendor |-> Get(cache_hit, "vendor", "unknown"),
    path |-> Get(cache_hit, "path", AUTO),
    status |-> "NEW", url |-> << >> ]

\* line 625-632: the row on_add creates for one ip
NewRow(ip, port, user, pwd) == RowOf(Get(cache, ip, EmptyMap), ip, port, user, pwd)

\* what the toolbar entries hold when "add" is pressed: (port, user, pwd)
AddHints == { <<DefaultPort, None, None>> }

\* the ip lines pasted into the text box
AddLines == { <<"10.0.0.5">>, <<BadIP>>, <<"10.0.0.5", "10.0.0.9">> }

AddRows_FromLen(rs, new) ==
  IF rs = << >> THEN new ELSE SubSeq(rs, 1, Len(rs) - 1) \o new

\* line 622-626: start = len(self.rows) + 1 and self.rows[start + i] = the i-th new row
AddRows(rs, new) ==
  [ cam_id \in 1..(Len(rs) + Len(new)) |->
      IF cam_id >= Len(rs) + 1 THEN new[cam_id - Len(rs)] ELSE rs[cam_id] ]

on_add(ips, port, user, pwd) ==
  /\ ui.pc = "idle"
  /\ Len(rows) + Len(ips) <= MaxCams
  /\ rows' = AddRows(rows, [ i \in 1..Len(ips) |-> NewRow(ips[i], port, user, pwd) ])
  /\ UNCHANGED <<cache, disk, try_defaults, max_workers, batches, ui, env>>

\* a set of camera ids as the ascending list the table selection gives
RECURSIVE Ascending(_)
Ascending(S) ==
  IF S = {} THEN << >>
  ELSE LET m == CHOOSE x \in S : \A y \in S : x <= y IN <<m>> \o Ascending(S \ {m})

\* what the path dialog returns
PathInputs == { <<BLANK>>, <<SEP, "live", BLANK>> }

\* line 646-650: the selection and the dialog's answer; an empty answer means AUTO
on_set_path_selected(sel, answer) ==
  /\ ui.pc = "idle"
  /\ sel # {}
  /\ edits < MaxEdits
  /\ edits' = edits + 1
  /\ ui' = [ pc |-> "sp_path", sel |-> Ascending(sel),
             path |-> IF StripBlanks(answer) = << >> THEN AUTO ELSE StripBlanks(answer) ]
  /\ UNCHANGED <<rows, cache, disk, try_defaults, max_workers, batches, reach, play, response,
                 pure>>

\* line 652, first statement: r["path"] = path
SetPathPath ==
  /\ ui.pc = "sp_path"
  /\ SetRow(Head(ui.sel), [rows[Head(ui.sel)] EXCEPT !.path = ui.path])
  /\ ui' = [ui EXCEPT !.pc = "sp_status"]
  /\ UNCHANGED <<cache, disk, try_defaults, max_workers, batches, env>>

\* line 652, second statement: r["status"] = "NEW"
SetPathStatus ==
  /\ ui.pc = "sp_status"
  /\ SetRow(Head(ui.sel), [rows[Head(ui.sel)] EXCEPT !.status = "NEW"])
  /\ ui' = [ui EXCEPT !.pc = "sp_url"]
  /\ UNCHANGED <<cache, disk, try_defaults, max_workers, batches, env>>

\* line 652, third statement: r["url"] = "", then the next selected row
SetPathUrl ==
  /\ ui.pc = "sp_url"
  /\ SetRow(Head(ui.sel), [rows[Head(ui.sel)] EXCEPT !.url = << >>])
  /\ ui' = IF Tail(ui.sel) = << >> THEN Idle ELSE [ui EXCEPT !.pc = "sp_path", !.sel = Tail(ui.sel)]
  /\ UNCHANGED <<cache, disk, try_defaults, max_workers, batches, env>>

\* the calls submitted so far, over all batches
RECURSIVE SumLen(_)
SumLen(bs) == IF bs = << >> THEN 0 ELSE Len(Head(bs).ids) + SumLen(Tail(bs))

Submitted == SumLen(batches)

NewBatch(ids) ==
  [ ids |-> ids, pc |-> "start", workers |-> 0, fut |-> [ c \in Range(ids) |-> Queued ],
    got |-> {}, cur |-> 0, out |-> NoRes, succ |-> 0, fail |-> 0, summary |-> << >>,
    applied |-> [ c \in Range(ids) |-> 0 ], saved |-> FALSE, keys |-> {} ]

\* line 704-707 and 730: the worker count is stored and the run() thread started
_probe_ids(ids, threads) ==
  /\ ui.pc = "idle"
  /\ ids # << >>
  /\ Len(batches) < MaxBatches
  /\ Submitted + Len(ids) <= MaxProbes
  /\ max_workers' = threads
  /\ batches' = Append(batches, NewBatch(ids))
  /\ UNCHANGED <<rows, cache, disk, try_defaults, ui, env>>

on_probe_all == \E threads \in 1..MaxWorkers : _probe_ids(Ascending(DOMAIN rows), threads)

on_probe_selected ==
  \E sel \in SUBSET DOMAIN rows, threads \in 1..MaxWorkers :
    sel # {} /\ _probe_ids(Ascending(sel), threads)

\* the "try default credentials" checkbox
ToggleDefaults ==
  /\ ui.pc = "idle"
  /\ edits < MaxEdits
  /\ edits' = edits + 1
  /\ try_defaults' = ~try_defaults
  /\ UNCHANGED <<rows, cache, disk, max_workers, batches, ui, reach, play, response, pure>>


(* --------------------------- specifications ----------------------------- *)

DefaultWorkers == 8

Hik101 == <<"Streaming", SEP, "Channels", SEP, "101">>

Hik102 == <<"Streaming", SEP, "Channels", SEP, "102">>

\* the answers to DESCRIBE: 10.0.0.9 names itself a Hikvision device, the others send
\* no identifying header
Responses ==
  [ ip \in IPs |-> IF ip = "10.0.0.9" THEN << <<"Server", <<"Hikvision", "-Webs">>>> >> ELSE << >> ]

\* what an earlier session left in CACHE_FILE
OldEntry ==
  [ vendor |-> "hikvision", path |-> Hik101, user |-> None, pwd |-> None, port |-> 554 ]

\* the dashboard after construction (lines 374-387): no rows, the cache as loaded from
\* CACHE_FILE (an entry for 10.0.0.9), the checkbox off.  The network: 10.0.0.5 streams on 554 without a path
\* and on 8554 under /live, 10.0.0.9 streams on 554 under its vendor's second path only
Init ==
  /\ rows = << >>
  /\ disk = JsonDump(Upsert(EmptyMap, "10.0.0.9", OldEntry))
  /\ cache = JsonLoad(disk)
  /\ try_defaults = FALSE
  /\ max_workers = DefaultWorkers
  /\ batches = << >>
  /\ ui = Idle
  /\ edits = 0
  /\ reach = { <<"10.0.0.5", 554>>, <<"10.0.0.5", 8554>>, <<"10.0.0.9", 554>> }
  /\ play = { BuildUrl("10.0.0.5", 554, None, None, << >>),
              BuildUrl("10.0.0.5", 8554, None, None, <<"live">>),
              BuildUrl("10.0.0.9", 554, None, None, Hik102) }
  /\ response = Responses
  /\ pure = NoCall

Worker ==
  \E b \in DOMAIN batches : \E c \in DOMAIN batches[b].fut :
    \/ WorkerStart(b, c)
    \/ WorkerCandidates(b, c)
    \/ WorkerPort(b, c)

Batch ==
  \E b \in DOMAIN batches :
    \/ BatchStart(b)
    \/ \E c \in DOMAIN batches[b].fut : Collect(b, c)
    \/ Unwind(b)
    \/ ApplyUrl(b)
    \/ ApplyVendor(b)
    \/ ApplyPath(b)
    \/ ApplyBranch(b)
    \/ ApplyCache(b)
    \/ SaveCache(b)
    \/ Report(b)

Tk ==
  \/ \E ips \in AddLines, h \in AddHints : on_add(ips, h[1], h[2], h[3])
  \/ \E c \in DOMAIN rows, answer \in PathInputs : on_set_path_selected({c}, answer)
  \/ SetPathPath
  \/ SetPathStatus
  \/ SetPathUrl
  \/ on_probe_all
  \/ on_probe_selected
  \/ ToggleDefaults

Next == Tk \/ Batch \/ Worker

Spec == Init /\ [][Next]_vars

(* One discovery run: a row with its hints, one submitted call, a fixed network. *)

EngineIP == "10.0.0.5"

EngineHints == { <<DefaultPort, None, None>>, <<8554, "admin", "12345">>, <<NoPort, "user", "user">> }

EngineReach ==
  { {}, { <<EngineIP, 554>> }, { <<EngineIP, 8554>>, <<EngineIP, 10554>> },
    { <<EngineIP, 554>>, <<EngineIP, 8554>>, <<EngineIP, 10554>> } }

EngineUrls ==
  { BuildUrl(EngineIP, port, cred[1], cred[2], path) :
      port \in {554, 8554},
      cred \in { <<None, None>>, <<"admin", "12345">>, <<"admin", "">>, <<"user", "user">> },
      path \in { << >>, <<"live">>, Hik101, <<"unicast">> } }

InitEngine ==
  /\ \E h \in EngineHints, path \in {AUTO, <<SEP, "live">>} :
       rows = << [ ip |-> EngineIP, port |-> h[1], user |-> h[2], pwd |-> h[3],
                   vendor |-> "unknown", path |-> path, status |-> "NEW", url |-> << >> ] >>
  /\ disk = JsonDump(EmptyMap)
  /\ cache = JsonLoad(disk)
  /\ try_defaults = FALSE
  /\ max_workers = 1
  /\ batches = << [ NewBatch(<<1>>) EXCEPT !.pc = "collect", !.workers = 1 ] >>
  /\ ui = Idle
  /\ edits = 0
  /\ reach \in EngineReach
  /\ play \in { {} } \cup { {u} : u \in EngineUrls }
            \cup { {u, BuildUrl(EngineIP, 8554, None, None, <<"live">>)} : u \in EngineUrls }
  /\ response \in { [ ip \in IPs |-> r ] : r \in { << >>, << <<"Server", <<"Hikvision", "-Webs">>>> >> } }
  /\ pure = NoCall

NextEngine == ToggleDefaults \/ Worker

SpecEngine == InitEngine /\ [][NextEngine]_vars

(* One batch from submission to its summary: the rows are there (10.0.0.9 on   *)
(* the auto setting, the others with the path /live set), probe-all has been   *)
(* pressed once, and the run() thread and its pool threads always get to run.  *)

BatchRows == { <<"10.0.0.5">>, <<"10.0.0.5", "10.0.0.9">>, <<BadIP, "10.0.0.5">> }

InitBatch ==
  /\ disk = JsonDump(Upsert(EmptyMap, "10.0.0.9", OldEntry))
  /\ cache = JsonLoad(disk)
  /\ \E ips \in BatchRows :
       /\ rows = [ i \in 1..Len(ips) |->
                    [ ip |-> ips[i], port |-> DefaultPort, user |-> None, pwd |-> None,
                      vendor |-> "unknown",
                      path |-> IF ips[i] = "10.0.0.9" THEN AUTO ELSE <<SEP, "live">>,
                      status |-> "NEW", url |-> << >> ] ]
       /\ batches = << NewBatch(Ascending(1..Len(ips))) >>
  /\ try_defaults \in BOOLEAN
  /\ max_workers \in {1, DefaultWorkers}
  /\ ui = Idle
  /\ edits = 0
  /\ reach = { <<"10.0.0.5", 554>>, <<"10.0.0.5", 8554>>, <<"10.0.0.9", 554>> }
  /\ play \in { {}, { BuildUrl("10.0.0.5", 8554, "admin", "", <<"live">>) } }
  /\ response = Responses
  /\ pure = NoCall

NextBatch == Batch \/ Worker

SpecBatch == InitBatch /\ [][NextBatch]_vars /\ WF_vars(Batch) /\ WF_vars(Worker)

(* One camera on the auto setting, probed again and again with nothing else    *)
(* touched in between: 10.0.0.9 names its vendor but may serve no stream.      *)

ReprobeIPs == IPs

InitReprobe ==
  /\ disk = JsonDump(Upsert(EmptyMap, "10.0.0.9", OldEntry))
  /\ cache = JsonLoad(disk)
  /\ \E ip \in ReprobeIPs :
       rows = << [ ip |-> ip, port |-> DefaultPort, user |-> None, pwd |-> None,
                   vendor |-> "unknown", path |-> AUTO, status |-> "NEW", url |-> << >> ] >>
  /\ batches = << >>
  /\ try_defaults = FALSE
  /\ max_workers = DefaultWorkers
  /\ ui = Idle
  /\ edits = 0
  /\ reach = { <<"10.0.0.5", 554>>, <<"10.0.0.5", 8554>>, <<"10.0.0.9", 554>> }
  /\ play \in { {}, { BuildUrl("10.0.0.5", 8554, None, None, <<"live">>),
                      BuildUrl("10.0.0.9", 554, None, None, Hik102) } }
  /\ response = Responses
  /\ pure = NoCall

NextReprobe == on_probe_all \/ Batch \/ Worker

SpecReprobe == InitReprobe /\ [][NextReprobe]_vars

(* The module-level functions detect_vendor and build_urls, each called once on *)
(* arguments of its own.                                                        *)

MaxPathList == 2

HeaderKeys == {"server", "www-authenticate", "proxy-authenticate", "via"}

HeaderValues ==
  { <<"Hikvision", "-Webs">>, <<"Digest", BLANK, "realm=", "dahua">>,
    <<"general", BLANK, "axis">>, <<"TAPO">>, <<"nginx">> }

PathArgs ==
  { << >>, <<"live">>, <<SEP, "live">>, <<SEP, SEP, "live">>, <<SEP>>, <<SEP, SEP>>,
    Hik101, <<"live", SEP>> }

PathLists == UNION { [ 1..n -> PathArgs ] : n \in 0..MaxPathList }

Call_detect_vendor ==
  /\ pure = NoCall
  /\ \E ks \in SUBSET HeaderKeys : \E headers \in [ ks -> HeaderValues ] :
       pure' = [ fn |-> "detect_vendor", args |-> <<headers>>, ret |-> detect_vendor(headers) ]
  /\ UNCHANGED <<rows, cache, disk, try_defaults, max_workers, batches, ui, edits, reach,
                 play, response>>

Call_build_urls ==
  /\ pure = NoCall
  /\ \E ip \in GoodIPs, port \in {80, DefaultPort, 8554}, user \in {None, "admin"},
        pwd \in {None, "", "12345"}, paths \in PathLists :
       pure' = [ fn |-> "build_urls", args |-> <<ip, port, user, pwd, paths>>,
                 ret |-> build_urls(ip, port, user, pwd, paths) ]
  /\ UNCHANGED <<rows, cache, disk, try_defaults, max_workers, batches, ui, edits, reach,
                 play, response>>

\* a port above 65535 makes the socket module fail with an error that is an OSError
PortArgs == {DefaultPort, 8554, 70000}

\* what a call of ping_host gives its caller: the bool it returns (exc is ""), or the
\* exception it lets through
PingOutcome(ip, port) ==
  IF PingRaises(ip) THEN [ exc |-> "UnicodeError", val |-> FALSE ]
  ELSE [ exc |-> "", val |-> ping_host(ip, port) ]

Call_ping_host ==
  /\ pure = NoCall
  /\ \E ip \in IPs, port \in PortArgs :
       pure' = [ fn |-> "ping_host", args |-> <<ip, port>>, ret |-> PingOutcome(ip, port) ]
  /\ UNCHANGED <<rows, cache, disk, try_defaults, max_workers, batches, ui, edits, reach,
                 play, response>>

\* the keys of an entry written by line 724
EntryKeys == {"vendor", "path", "user", "pwd", "port"}

\* entries as line 724 writes them: without credentials, and with a default pair
WrittenEntries ==
  { OldEntry,
    [ vendor |-> "generic", path |-> <<"live">>, user |-> "admin", pwd |-> "", port |-> 8554 ] }

\* what self.cache.get(ip, {}) can give: CACHE_FILE is loaded as it is (line 409), so an
\* entry of an edited or older file may hold any part of the keys; {} when the ip is new
CacheHits == { [ k \in ks |-> e[k] ] : e \in WrittenEntries, ks \in SUBSET EntryKeys }

\* line 615-620: the toolbar's port, user and password
HintArgs == { <<DefaultPort, None, None>>, <<8554, "admin", "12345">> }

Call_on_add ==
  /\ pure = NoCall
  /\ \E hit \in CacheHits, h \in HintArgs, ip \in GoodIPs :
       pure' = [ fn |-> "on_add", args |-> <<hit, h>>, ret |-> RowOf(hit, ip, h[1], h[2], h[3]) ]
  /\ UNCHANGED <<rows, cache, disk, try_defaults, max_workers, batches, ui, edits, reach,
                 play, response>>

NextPure == Call_detect_vendor \/ Call_build_urls \/ Call_ping_host \/ Call_on_add

SpecPure == Init /\ [][NextPure]_vars


(* ------------------------- the discovery engine ------------------------- *)

\* the submitted calls, as (batch, camera id)
Futures == { bc \in (DOMAIN batches) \X (DOMAIN rows) : bc[2] \in DOMAIN batches[bc[1]].fut }

\* C1 - early exit: the first candidate the validator accepts is the last one it is
\* called on, and the run has returned SUCCESS with that candidate's port, path,
\* credentials and the URL built from them.
C1_EarlyExit ==
  \A bc \in Futures :
    LET f == Fut(bc[1], bc[2])
    IN  \A i \in DOMAIN f.calls :
          quick_open(f.calls[i].url) =>
            /\ i = Len(f.calls)
            /\ f.st = "done"
            /\ f.res.status = "SUCCESS"
            /\ f.res.port = f.calls[i].port
            /\ f.res.path = f.calls[i].path
            /\ f.res.user = f.calls[i].user
            /\ f.res.pwd = f.calls[i].pwd
            /\ f.res.url = f.calls[i].url
            /\ f.res.url = BuildUrl(rows[bc[2]].ip, f.res.port, f.res.user, f.res.pwd, f.res.path)

\* a run that succeeded after failed attempts and with candidate ports still untried
C1_Witness ==
  \E bc \in Futures :
    LET f == Fut(bc[1], bc[2])
    IN  /\ f.res.status = "SUCCESS"
        /\ Len(f.calls) > 1
        /\ f.idx < Len(f.ports)

\* C2 - unreachable short-circuit: every validator call is for a port whose
\* connectivity probe answered reachable earlier in the run; a run all of whose
\* candidate ports are unreachable calls the validator never and returns FAILED, url "".
C2_UnreachableShortCircuit ==
  \A bc \in Futures :
    LET f  == Fut(bc[1], bc[2])
        ip == rows[bc[2]].ip
    IN  /\ \A i \in DOMAIN f.calls :
             /\ <<ip, f.calls[i].port>> \in reach
             /\ <<f.calls[i].port, TRUE>> \in Range(f.pings)
        /\ (f.st = "done" /\ \A p \in Range(f.ports) : <<ip, p>> \notin reach) =>
             /\ f.calls = << >>
             /\ f.res.status = "FAILED"
             /\ f.res.url = << >>

\* a finished run that probed every candidate port and found none reachable
C2_Witness ==
  \E bc \in Futures :
    LET f == Fut(bc[1], bc[2])
    IN  /\ f.st = "done"
        /\ Len(f.pings) >= 2
        /\ Len(f.pings) = Len(f.ports)
        /\ \A i \in DOMAIN f.pings : f.pings[i][2] = FALSE

\* C3 as stated - defaults only after all hinted attempts: before any default-credential
\* call, every candidate path on every reachable candidate port has been validated
\* with the hinted credentials.
C3_DefaultsAfterAllHinted ==
  \A bc \in Futures :
    LET f  == Fut(bc[1], bc[2])
        ip == rows[bc[2]].ip
    IN  \A i \in DOMAIN f.calls :
          f.calls[i].kind = "default" =>
            \A p \in Range(f.ports), k \in DOMAIN f.paths :
              <<ip, p>> \in reach =>
                \E j \in 1..(i - 1) :
                  /\ f.calls[j].kind = "hint"
                  /\ f.calls[j].port = p
                  /\ f.calls[j].path = f.paths[k]

\* C3 amended - per port: before a default-credential call on a port, every candidate
\* path on that same port has been validated with the hinted credentials and has failed.
C3_DefaultsAfterHintedOnPort ==
  \A bc \in Futures :
    LET f == Fut(bc[1], bc[2])
    IN  \A i \in DOMAIN f.calls :
          f.calls[i].kind = "default" =>
            \A k \in DOMAIN f.paths :
              \E j \in 1..(i - 1) :
                /\ f.calls[j].kind = "hint"
                /\ f.calls[j].port = f.calls[i].port
                /\ f.calls[j].path = f.paths[k]
                /\ ~quick_open(f.calls[j].url)

\* default credentials were tried in a run with two reachable candidate ports
C3_Witness ==
  \E bc \in Futures :
    LET f  == Fut(bc[1], bc[2])
        ip == rows[bc[2]].ip
    IN  /\ \E i \in DOMAIN f.calls : f.calls[i].kind = "default"
        /\ Cardinality({ p \in Range(f.ports) : <<ip, p>> \in reach }) >= 2

\* C4 - credential-guessing guard: a run that never read the option as on validates
\* only URLs embedding the hinted credentials; otherwise the default-credential calls
\* on a port carry entries 1..3 of the resolved vendor's default list, in catalog order.
C4_CredentialGuard ==
  \A bc \in Futures :
    LET f  == Fut(bc[1], bc[2])
        ip == rows[bc[2]].ip
        defaults == VENDOR_DB[f.vendor].defaults
    IN  /\ (\A k \in DOMAIN f.reads : f.reads[k] = FALSE) =>
             \A i \in DOMAIN f.calls :
               /\ f.calls[i].user = f.user
               /\ f.calls[i].pwd = f.pwd
               /\ f.calls[i].url = BuildUrl(ip, f.calls[i].port, f.user, f.pwd, f.calls[i].path)
        /\ \A i \in DOMAIN f.calls :
             f.calls[i].kind = "default" =>
               /\ f.calls[i].di \in 1..MaxDefaults
               /\ f.calls[i].di <= Len(defaults)
               /\ <<f.calls[i].user, f.calls[i].pwd>> = defaults[f.calls[i].di]
               /\ \A j \in 1..(i - 1) :
                    (f.calls[j].kind = "default" /\ f.calls[j].port = f.calls[i].port) =>
                      f.calls[j].di <= f.calls[i].di

\* a failed run that went through the third default pair of a vendor that has a fourth
C4_Witness ==
  \E bc \in Futures :
    LET f == Fut(bc[1], bc[2])
    IN  /\ f.st = "done"
        /\ f.res.status = "FAILED"
        /\ Len(VENDOR_DB[f.vendor].defaults) > MaxDefaults
        /\ \E i \in DOMAIN f.calls : f.calls[i].di = MaxDefaults


(* ------------------------- rows, batches, cache ------------------------- *)

\* the port a URL names: the digits after the last ":" of its authority, which ends at
\* the first separator and starts after the last "@"
UrlPort(url) ==
  LET rest    == Tail(url)
      seps    == { i \in DOMAIN rest : rest[i] = SEP }
      netloc  == IF seps = {} THEN rest
                 ELSE SubSeq(rest, 1, (CHOOSE i \in seps : \A j \in seps : i <= j) - 1)
      ats     == { i \in DOMAIN netloc : netloc[i] = "@" }
      host    == IF ats = {} THEN netloc
                 ELSE SubSeq(netloc, (CHOOSE i \in ats : \A j \in ats : i >= j) + 1, Len(netloc))
      colons  == { i \in DOMAIN host : host[i] = ":" }
  IN  FromDec(SubSeq(host, (CHOOSE i \in colons : \A j \in colons : i >= j) + 1, Len(host)))

\* no handler is in the middle of writing row c
Settled(c) ==
  /\ ui.pc = "idle"
  /\ \A b \in DOMAIN batches : batches[b].cur # c

\* the run() thread of batch b has ended, normally or by an exception
Over(b) == batches[b].pc \in {"end", "dead"}

\* C5 - record status invariant: whenever no handler is in the middle of writing a row,
\* a SUCCESS row has a non-empty url whose port is the row's port, and a FAILED row has
\* an empty url.
C5_RecordStatus ==
  \A c \in DOMAIN rows :
    Settled(c) =>
      /\ rows[c].status = "SUCCESS" => (rows[c].url # << >> /\ rows[c].port = UrlPort(rows[c].url))
      /\ rows[c].status = "FAILED" => rows[c].url = << >>

\* C6 - batch completeness: when a batch's thread has ended, every submitted id has had
\* its outcome applied exactly once and the reported counts add up to the batch size.
C6_BatchCompleteness ==
  \A b \in DOMAIN batches :
    Over(b) =>
      /\ \A c \in Range(batches[b].ids) : batches[b].applied[c] = 1
      /\ batches[b].summary = <<batches[b].succ, batches[b].fail>>
      /\ batches[b].succ + batches[b].fail = Len(batches[b].ids)

\* C7 - failure isolation: when a batch in which some run raised has ended, the outcome
\* of every run that returned has been applied, the cache has been persisted and the
\* summary has been reported.
C7_FailureIsolation ==
  \A b \in DOMAIN batches :
    (Over(b) /\ \E c \in Range(batches[b].ids) : Fut(b, c).st = "raised") =>
      /\ \A c \in Range(batches[b].ids) : Fut(b, c).st = "done" => batches[b].applied[c] = 1
      /\ batches[b].saved
      /\ batches[b].summary # << >>

\* C8 - no lost cache update: once every batch has ended, the cache holds an entry for
\* the ip of every run that returned SUCCESS.
C8_NoLostCacheUpdate ==
  (\A b \in DOMAIN batches : Over(b)) =>
    \A bc \in Futures :
      Fut(bc[1], bc[2]).res.status = "SUCCESS" => rows[bc[2]].ip \in DOMAIN cache

\* C9 - last-known-good entry: the step that writes the cache for a SUCCESS outcome
\* leaves, under the row's ip, exactly the outcome's vendor, path, user, password and port.
C9_CacheHoldsOutcome ==
  [][ \A b \in DOMAIN batches :
        (/\ b \in DOMAIN batches'
         /\ batches[b].pc = "cache"
         /\ batches'[b].pc # "cache"
         /\ batches[b].out.status = "SUCCESS") =>
          /\ rows[batches[b].cur].ip \in DOMAIN cache'
          /\ cache'[rows[batches[b].cur].ip] =
               [ vendor |-> batches[b].out.vendor, path |-> batches[b].out.path,
                 user |-> batches[b].out.user, pwd |-> batches[b].out.pwd,
                 port |-> batches[b].out.port ] ]_vars

\* C10 - cache updated for successes only: no step a batch thread takes while the
\* outcome it holds, or picks up, is FAILED changes the cache.
C10_FailedLeavesCache ==
  [][ \A b \in DOMAIN batches :
        (/\ b \in DOMAIN batches'
         /\ batches'[b].pc # batches[b].pc
         /\ (batches[b].out.status = "FAILED" \/ batches'[b].out.status = "FAILED")) =>
          cache' = cache ]_vars

\* a FAILED outcome has been applied for an ip that has a cache entry
C10_Witness ==
  \E b \in DOMAIN batches, c \in DOMAIN rows :
    /\ c \in DOMAIN batches[b].fut
    /\ batches[b].applied[c] = 1
    /\ batches[b].cur # c
    /\ Fut(b, c).res.status = "FAILED"
    /\ rows[c].ip \in DOMAIN cache

\* C11 - persist-after-all: the step of a batch thread that persists the cache, and the
\* step that reports the summary, is taken only when the outcome of every submitted id
\* has been applied in full; a write that completes leaves in the file the whole cache,
\* with an entry for the ip of every SUCCESS of the batch.
C11_PersistAfterAll ==
  [][ \A b \in DOMAIN batches :
        (/\ b \in DOMAIN batches'
         /\ \/ ~batches[b].saved /\ batches'[b].saved
            \/ batches[b].summary = << >> /\ batches'[b].summary # << >>) =>
          /\ \A c \in Range(batches[b].ids) : batches[b].applied[c] = 1
          /\ batches[b].cur = 0
          /\ batches[b].succ + batches[b].fail = Len(batches[b].ids)
          /\ (batches'[b].saved /\ ~batches[b].saved /\ disk' # disk /\ disk'.closed) =>
               /\ JsonLoad(disk') = cache
               /\ \A c \in Range(batches[b].ids) :
                    Fut(b, c).res.status = "SUCCESS" => rows[c].ip \in DOMAIN JsonLoad(disk') ]_vars

\* a batch of two cameras has persisted the entry its one SUCCESS added to the cache
C11_Witness ==
  \E b \in DOMAIN batches :
    /\ batches[b].saved
    /\ Len(batches[b].ids) = 2
    /\ batches[b].succ = 1
    /\ \E c \in Range(batches[b].ids) :
         /\ Fut(b, c).res.status = "SUCCESS"
         /\ rows[c].ip \in DOMAIN JsonLoad(disk)
         /\ rows[c].ip \notin DOMAIN Upsert(EmptyMap, "10.0.0.9", OldEntry)

\* the discovery runs in flight: taken up by a pool thread and not yet returned
InFlight == { bc \in Futures : Fut(bc[1], bc[2]).st \in {"started", "running"} }

\* C12 - bounded parallelism: at every moment the number of discovery runs in flight,
\* over all batches, is at most the configured worker count.
C12_BoundedParallelism == Cardinality(InFlight) <= max_workers

\* C13 - one in-flight probe per camera id: no camera id has discovery runs of two
\* batches in flight at the same time.
C13_OneInFlightPerCamera ==
  \A bc1 \in InFlight, bc2 \in InFlight : bc1[2] = bc2[2] => bc1[1] = bc2[1]

(* --------------------- the engine's outcome and candidates -------------- *)

\* C14 - FAILED outcome shape: a run that returned FAILED had no validator success; its
\* url is empty, its vendor is the one resolved from the fingerprint, its path is the
\* first candidate path, and its credential triple is the row's hinted user, password
\* and port (554 when the row has none), whatever defaults or ports were tried.
C14_FailedShape ==
  \A bc \in Futures :
    LET f    == Fut(bc[1], bc[2])
        r    == rows[bc[2]]
        hint == IF r.port = NoPort \/ r.port = 0 THEN DefaultPort ELSE r.port
        v    == detect_vendor(rtsp_headers(r.ip, hint))
    IN  (f.st = "done" /\ f.res.status = "FAILED") =>
          /\ \A i \in DOMAIN f.calls : ~quick_open(f.calls[i].url)
          /\ f.res.url = << >>
          /\ f.res.vendor = v
          /\ f.res.path = (IF r.path # AUTO THEN r.path ELSE VENDOR_DB[v].paths[1])
          /\ f.res.user = r.user
          /\ f.res.pwd = r.pwd
          /\ f.res.port = hint

\* a FAILED run whose last validator call used a default pair on a port other than the
\* hinted one
C14_Witness ==
  \E bc \in Futures :
    LET f == Fut(bc[1], bc[2])
    IN  /\ f.st = "done"
        /\ f.res.status = "FAILED"
        /\ f.calls # << >>
        /\ f.calls[Len(f.calls)].kind = "default"
        /\ f.calls[Len(f.calls)].port # f.res.port
        /\ f.calls[Len(f.calls)].user # f.res.user

\* position of x in the sequence s, 0 if it is not there
IndexIn(s, x) == IF x \in Range(s) THEN CHOOSE i \in DOMAIN s : s[i] = x ELSE 0

\* where the specification puts port p: the hint, then the vendor's list, then generic's
PortRank(p, hint, v) ==
  IF p = hint THEN 0
  ELSE IF p \in Range(VENDOR_DB[v].ports) THEN IndexIn(VENDOR_DB[v].ports, p)
  ELSE Len(VENDOR_DB[v].ports) + IndexIn(VENDOR_DB["generic"].ports, p)

\* C15 - candidate port sequence: the ports of a run are the hinted port, the resolved
\* vendor's ports and the generic ports, each once, in that order; the connectivity
\* probes of the run follow that sequence from its start and probe no port twice.
C15_CandidatePorts ==
  \A bc \in Futures :
    LET f    == Fut(bc[1], bc[2])
        r    == rows[bc[2]]
        hint == IF r.port = NoPort \/ r.port = 0 THEN DefaultPort ELSE r.port
        v    == detect_vendor(rtsp_headers(r.ip, hint))
    IN  f.st \in {"running", "done"} =>
          /\ f.ports[1] = hint
          /\ Range(f.ports) = {hint} \cup Range(VENDOR_DB[v].ports)
                                     \cup Range(VENDOR_DB["generic"].ports)
          /\ \A i \in DOMAIN f.ports, j \in DOMAIN f.ports :
               i < j => PortRank(f.ports[i], hint, v) < PortRank(f.ports[j], hint, v)
          /\ Len(f.pings) <= Len(f.ports)
          /\ \A i \in DOMAIN f.pings : f.pings[i][1] = f.ports[i]
          /\ \A i \in DOMAIN f.pings, j \in DOMAIN f.pings :
               f.pings[i][1] = f.pings[j][1] => i = j

\* a finished run that probed three distinct ports, the hint being one of the vendor's
C15_Witness ==
  \E bc \in Futures :
    LET f == Fut(bc[1], bc[2])
    IN  /\ f.st = "done"
        /\ Len(f.pings) = 3
        /\ f.ports[1] \in Range(VENDOR_DB[f.vendor].ports)
        /\ f.vendor # "generic"

\* C16 - candidate path sequence: with an explicit path setting that path is the only
\* candidate; with the auto setting the candidates are the resolved vendor's catalog
\* paths (the generic ones if it has none); on a port, each credential pair's validator
\* calls take the candidates in that order, from the first.
C16_CandidatePaths ==
  \A bc \in Futures :
    LET f     == Fut(bc[1], bc[2])
        r     == rows[bc[2]]
        hint  == IF r.port = NoPort \/ r.port = 0 THEN DefaultPort ELSE r.port
        v     == detect_vendor(rtsp_headers(r.ip, hint))
        paths == IF r.path # AUTO THEN <<r.path>>
                 ELSE IF Len(VENDOR_DB[v].paths) > 0 THEN VENDOR_DB[v].paths
                 ELSE VENDOR_DB["generic"].paths
    IN  f.st \in {"running", "done"} =>
          /\ f.paths = paths
          /\ \A i \in DOMAIN f.calls :
               LET before == { j \in 1..(i - 1) : /\ f.calls[j].port = f.calls[i].port
                                                  /\ f.calls[j].di = f.calls[i].di }
               IN  /\ Cardinality(before) < Len(paths)
                   /\ f.calls[i].path = paths[Cardinality(before) + 1]

\* a run with an explicit path setting that validated it on two ports
C16_Witness ==
  \E bc \in Futures :
    LET f == Fut(bc[1], bc[2])
    IN  /\ rows[bc[2]].path # AUTO
        /\ f.st = "done"
        /\ Cardinality({ f.calls[i].port : i \in DOMAIN f.calls }) >= 2

\* C17 - a cache hit only narrows the first candidates: a finished run of a row whose
\* path setting is the path of the cache entry of its ip tried that path first; if it
\* returned SUCCESS the validator accepted its URL in this run; if it returned FAILED it
\* went on to every candidate path of the resolved vendor on every reachable port.
C17_CacheHitNarrows ==
  \A bc \in Futures :
    LET f  == Fut(bc[1], bc[2])
        ip == rows[bc[2]].ip
    IN  (/\ f.st = "done"
         /\ bc[2] \notin batches[bc[1]].got
         /\ ip \in DOMAIN cache
         /\ f.path_setting # AUTO
         /\ f.path_setting = cache[ip].path) =>
          /\ f.calls # << >> => f.calls[1].path = cache[ip].path
          /\ f.res.status = "SUCCESS" =>
               \E i \in DOMAIN f.calls : f.calls[i].url = f.res.url /\ quick_open(f.res.url)
          /\ f.res.status = "FAILED" =>
               \A p \in Range(f.ports), k \in Range(VENDOR_DB[f.vendor].paths) :
                 <<ip, p>> \in reach =>
                   \E i \in DOMAIN f.calls : f.calls[i].port = p /\ f.calls[i].path = k

(* ----------------------- detect_vendor, build_urls ---------------------- *)

\* some match token of vendor v occurs in the lower-cased server, www-authenticate or
\* proxy-authenticate value
Occurs(v, headers) ==
  \E k \in {"server", "www-authenticate", "proxy-authenticate"} \cap DOMAIN headers :
    \E i \in DOMAIN headers[k], token \in Range(VENDOR_DB[v].match) :
      LowerTok(headers[k][i]) = token

\* C18 - first match in catalog order: detect_vendor returns a catalog vendor exactly
\* when one of its match tokens occurs in the three header values and no token of an
\* earlier vendor does; it returns generic exactly when no catalog token occurs.
C18_FirstMatch ==
  pure.fn = "detect_vendor" =>
    /\ \A i \in DOMAIN VendorOrder :
         VendorOrder[i] # "generic" =>
           (pure.ret = VendorOrder[i] <=>
              /\ Occurs(VendorOrder[i], pure.args[1])
              /\ \A j \in 1..(i - 1) : ~Occurs(VendorOrder[j], pure.args[1]))
    /\ pure.ret = "generic" <=> \A v \in Range(VendorOrder) : ~Occurs(v, pure.args[1])

\* the earlier vendor won although the later vendor's token stands in the server value
C18_Witness ==
  /\ pure.fn = "detect_vendor"
  /\ pure.ret = "hikvision"
  /\ "server" \in DOMAIN pure.args[1]
  /\ "dahua" \in Range(pure.args[1]["server"])
  /\ Occurs("axis", pure.args[1])

Digits == { Digit(d) : d \in 0..9 }

\* position of the first separator of the URL u, Len(u) + 1 if it has none
FirstSep(u) ==
  IF \E i \in DOMAIN u : u[i] = SEP
  THEN CHOOSE i \in DOMAIN u : u[i] = SEP /\ \A j \in 1..(i - 1) : u[j] # SEP
  ELSE Len(u) + 1

\* the path p is nothing but separators (the empty path included)
OnlySeps(p) == \A i \in DOMAIN p : p[i] = SEP

\* C19 - URL builder shape: build_urls returns one URL per path, in order; each starts
\* with rtsp://ip: (no "@" anywhere) when there is no user and with rtsp://user:password@ip:
\* when there is one, a null password being empty; the decimal port follows; then nothing
\* at all for an empty path, else one separator and the path after its leading separators.
C19_UrlShape ==
  pure.fn = "build_urls" =>
    LET ip    == pure.args[1]
        port  == pure.args[2]
        user  == pure.args[3]
        pwd   == pure.args[4]
        paths == pure.args[5]
        n0    == IF user = None THEN 3 ELSE 7
    IN  /\ Len(pure.ret) = Len(paths)
        /\ \A i \in DOMAIN paths :
             LET u == pure.ret[i]
                 m == FirstSep(u) - 1
             IN  /\ user = None => (SubSeq(u, 1, 3) = <<"rtsp://", ip, ":">> /\ "@" \notin Range(u))
                 /\ user # None =>
                      SubSeq(u, 1, 7) = <<"rtsp://", user, ":", IF pwd = None THEN "" ELSE pwd,
                                          "@", ip, ":">>
                 /\ m > n0
                 /\ \A j \in (n0 + 1)..m : u[j] \in Digits
                 /\ FromDec(SubSeq(u, n0 + 1, m)) = port
                 /\ OnlySeps(paths[i]) => Len(u) = m
                 /\ ~OnlySeps(paths[i]) =>
                      \E k \in 0..Len(paths[i]) :
                        /\ \A j \in 1..k : paths[i][j] = SEP
                        /\ SubSeq(u, m + 1, Len(u)) = <<SEP>> \o SubSeq(paths[i], k + 1, Len(paths[i]))

\* a user without a password, and a path list holding the empty path and a path that
\* begins with a separator
C19_Witness ==
  /\ pure.fn = "build_urls"
  /\ pure.args[3] = "admin"
  /\ pure.args[4] = None
  /\ pure.args[5] = << << >>, <<SEP, "live">> >>

\* the number of separators the path p begins with
LeadingSeps(p) ==
  CHOOSE k \in 0..Len(p) : /\ \A j \in 1..k : p[j] = SEP
                           /\ k = Len(p) \/ p[k + 1] # SEP

\* what follows the port in the URL u
PathPart(u) == SubSeq(u, FirstSep(u), Len(u))

\* C20 as stated - a single leading separator is stripped: for a path that begins with
\* k >= 1 separators the URL's path part is one separator and the path without its
\* first separator (nothing if that is empty), so k - 1 of them stay.
C20_StripsOne ==
  pure.fn = "build_urls" =>
    \A i \in DOMAIN pure.args[5] :
      LeadingSeps(pure.args[5][i]) >= 1 =>
        PathPart(pure.ret[i]) =
          (IF Tail(pure.args[5][i]) = << >> THEN << >> ELSE <<SEP>> \o Tail(pure.args[5][i]))

\* C20 amended - every leading separator is stripped: for a path that begins with
\* k >= 1 separators the URL's path part is one separator and the path without its k
\* leading separators, and nothing when the path is separators only.
C20_StripsAll ==
  pure.fn = "build_urls" =>
    \A i \in DOMAIN pure.args[5] :
      LET p == pure.args[5][i]
          k == LeadingSeps(p)
      IN  k >= 1 =>
            PathPart(pure.ret[i]) =
              (IF k = Len(p) THEN << >> ELSE <<SEP>> \o SubSeq(p, k + 1, Len(p)))

\* a URL was built for a path that begins with two separators
C20_Witness ==
  /\ pure.fn = "build_urls"
  /\ \E i \in DOMAIN pure.args[5] :
       /\ LeadingSeps(pure.args[5][i]) = 2
       /\ Len(pure.args[5][i]) > 2

(* ------------------------------ failures -------------------------------- *)

\* C21 - the connectivity probe never raises: whatever host and port it is called on,
\* malformed hosts and out-of-range ports included, ping_host returns a boolean.
C21_PingNeverRaises ==
  pure.fn = "ping_host" =>
    /\ pure.ret.exc = ""
    /\ <<pure.args[1], pure.args[2]>> \notin reach => pure.ret.val = FALSE

\* C22 - fingerprint failure degrades to generic: a run whose fingerprint step gave the
\* empty mapping resolved the vendor generic, goes on with the hinted and the generic
\* ports and, under the auto setting, the generic paths, does not raise, and when it has
\* finished it has returned SUCCESS or FAILED.
C22_FingerprintDegrades ==
  \A bc \in Futures :
    LET f  == Fut(bc[1], bc[2])
        ip == rows[bc[2]].ip
    IN  (f.st \in {"running", "done", "raised"} /\ rtsp_headers(ip, f.base) = EmptyMap) =>
          /\ f.vendor = "generic"
          /\ Range(f.ports) = {f.base} \cup Range(VENDOR_DB["generic"].ports)
          /\ f.path_setting = AUTO => f.paths = VENDOR_DB["generic"].paths
          /\ f.st # "raised"
          /\ f.st = "done" => f.res.status \in {"SUCCESS", "FAILED"}

(* ------------------------- cache file and rows -------------------------- *)

\* C23 - cache round-trip: when a batch's write of the cache file completes, loading the
\* file as a new session does gives, for every ip of the cache, the entry it had when
\* written - the ip the batch wrote an entry for and every other ip alike - and no more.
C23_CacheRoundTrip ==
  [][ \A b \in DOMAIN batches :
        (/\ b \in DOMAIN batches'
         /\ batches[b].pc = "dump"
         /\ batches'[b].pc = "report"
         /\ disk'.closed) =>
          /\ DOMAIN JsonLoad(disk') = DOMAIN cache
          /\ \A ip \in DOMAIN cache :
               /\ JsonLoad(disk')[ip].vendor = cache[ip].vendor
               /\ JsonLoad(disk')[ip].path = cache[ip].path
               /\ JsonLoad(disk')[ip].user = cache[ip].user
               /\ JsonLoad(disk')[ip].pwd = cache[ip].pwd
               /\ JsonLoad(disk')[ip].port = cache[ip].port ]_vars

\* the file holds the entry a batch wrote for 10.0.0.5 (no user, no password) next to
\* the entry an earlier session left for 10.0.0.9
C23_Witness ==
  /\ disk.closed
  /\ \E b \in DOMAIN batches : batches[b].saved /\ batches[b].succ > 0
  /\ "10.0.0.5" \in DOMAIN JsonLoad(disk)
  /\ JsonLoad(disk)["10.0.0.5"].user = None
  /\ "10.0.0.9" \in DOMAIN JsonLoad(disk)
  /\ JsonLoad(disk)["10.0.0.9"] = OldEntry

\* C24 - records are never deleted and ids are stable: every step keeps every camera id
\* and the ip of its record; a step that adds records leaves the existing ones as they
\* were; a step of a batch thread adds and removes no id.
C24_RecordsStable ==
  [][ /\ \A c \in DOMAIN rows : c \in DOMAIN rows' /\ rows'[c].ip = rows[c].ip
      /\ Len(rows') > Len(rows) => \A c \in DOMAIN rows : rows'[c] = rows[c]
      /\ batches' # batches => DOMAIN rows' = DOMAIN rows ]_vars

\* two records, added one after the other, the first probed by two batches
C24_Witness ==
  /\ Len(rows) = 2
  /\ rows[1].ip # rows[2].ip
  /\ \E b1 \in DOMAIN batches, b2 \in DOMAIN batches :
       /\ b1 # b2
       /\ 1 \in DOMAIN batches[b1].fut /\ batches[b1].applied[1] = 1
       /\ 1 \in DOMAIN batches[b2].fut /\ batches[b2].applied[1] = 1
       /\ Len(batches[b1].ids) = 1

\* the most validator calls a run with these candidates can make
CallBound(f) ==
  LET d == Len(VENDOR_DB[f.vendor].defaults)
  IN  Len(f.ports) * Len(f.paths) * (1 + (IF d < MaxDefaults THEN d ELSE MaxDefaults))

\* C25 - batch liveness: a run never makes more validator calls than ports x paths x
\* (1 + min(3, defaults)); in a batch none of whose connectivity probes raises, every
\* run eventually returns, and the batch eventually has applied every outcome once,
\* persisted the cache and reported its summary.
C25_BatchLiveness ==
  /\ [](\A bc \in Futures :
          Fut(bc[1], bc[2]).st \in {"running", "done"} =>
            Len(Fut(bc[1], bc[2]).calls) <= CallBound(Fut(bc[1], bc[2])))
  /\ \A b \in {1} :
       (\A c \in DOMAIN rows : ~PingRaises(rows[c].ip)) =>
         <>(/\ \A c \in Range(batches[b].ids) :
                 Fut(b, c).st = "done" /\ batches[b].applied[c] = 1
            /\ batches[b].saved
            /\ batches[b].summary = <<batches[b].succ, batches[b].fail>>
            /\ batches[b].pc = "end")

\* a two-camera batch has reported after a run that tried default credentials on two ports
C25_Witness ==
  /\ batches[1].pc = "end"
  /\ Len(batches[1].ids) = 2
  /\ batches[1].succ = 1
  /\ batches[1].fail = 1
  /\ try_defaults

(* ----------------------------- fingerprint ------------------------------ *)

\* C26 - single fingerprint per run: a run that has built its candidates has sent
\* exactly one fingerprint request, to the hinted port (554 when the record has no
\* port), and the vendor resolved from that answer is the one its candidate ports,
\* its candidate paths, its default credentials and its outcome use.
C26_SingleFingerprint ==
  \A bc \in Futures :
    LET f      == Fut(bc[1], bc[2])
        r      == rows[bc[2]]
        hinted == IF r.port = NoPort \/ r.port = 0 THEN 554 ELSE r.port
        v      == detect_vendor(rtsp_headers(r.ip, hinted))
    IN  /\ f.st \in {"queued", "started"} => f.fps = << >>
        /\ f.st \in {"running", "done", "raised"} =>
              /\ f.fps = <<hinted>>
              /\ f.vendor = v
              /\ f.ports = CandidatePorts(hinted, v)
              /\ f.paths = CandidatePaths(f.path_setting, v)
              /\ \A i \in DOMAIN f.calls :
                    f.calls[i].kind = "default" =>
                      <<f.calls[i].user, f.calls[i].pwd>> = VENDOR_DB[v].defaults[f.calls[i].di]
              /\ f.st = "done" => f.res.vendor = v

\* a run hinted to port 8554, which does not answer, has resolved generic by its one
\* request there, although the device names its vendor on 554, and has gone on to
\* try a generic default credential on 554
C26_Witness ==
  \E bc \in Futures :
    LET f == Fut(bc[1], bc[2])
    IN  /\ f.st = "done"
        /\ f.fps = <<8554>>
        /\ f.vendor = "generic"
        /\ detect_vendor(rtsp_headers(rows[bc[2]].ip, 554)) = "hikvision"
        /\ \E i \in DOMAIN f.calls : f.calls[i].kind = "default" /\ f.calls[i].port = 554

\* C27 - a FAILED outcome leaves the candidate space alone: when a run of a record on
\* the auto setting returned FAILED and a later batch probes the record again, nothing
\* else having changed, the later run has the candidate path list the first one had.
C27_FailedKeepsCandidates ==
  \A b1 \in DOMAIN batches, b2 \in DOMAIN batches, c \in DOMAIN rows :
    (/\ b1 < b2
     /\ c \in DOMAIN batches[b1].fut
     /\ c \in DOMAIN batches[b2].fut
     /\ Fut(b1, c).path_setting = AUTO
     /\ Fut(b1, c).st = "done"
     /\ Fut(b1, c).res.status = "FAILED"
     /\ Fut(b2, c).st \in {"running", "done"}) =>
       Fut(b2, c).paths = Fut(b1, c).paths

(* ------------------------------- on_add --------------------------------- *)

\* C28 - cache seeding on registration: the record on_add builds for an ip takes each
\* of port, user, pwd, vendor and path from the cache entry whenever the entry has the
\* key - a cached null included, whatever the toolbar holds - and from the toolbar value
\* (unknown and the auto sentinel for vendor and path) only when the entry lacks the
\* key; its status is NEW and its url empty.
C28_CacheSeeding ==
  pure.fn = "on_add" =>
    LET hit  == pure.args[1]
        h    == pure.args[2]
        r    == pure.ret
        hint == [ port |-> h[1], user |-> h[2], pwd |-> h[3], vendor |-> "unknown",
                  path |-> AUTO ]
    IN  /\ \A k \in {"vendor", "path", "user", "pwd", "port"} :
              r[k] = IF k \in DOMAIN hit THEN hit[k] ELSE hint[k]
        /\ r.status = "NEW"
        /\ r.url = << >>

\* an entry with a null user and no port key met a toolbar holding admin and 8554: the
\* record has no user, and the toolbar's port
C28_Witness ==
  /\ pure.fn = "on_add"
  /\ "user" \in DOMAIN pure.args[1]
  /\ pure.args[1]["user"] = None
  /\ pure.args[2][2] = "admin"
  /\ pure.ret.user = None
  /\ "port" \notin DOMAIN pure.args[1]
  /\ pure.ret.port = 8554

=============================================================================
